---- MODULE Spec2Model ----
(***************************************************************************)
(* warm.py: an in-memory relational store.  Record sets (tables) hold      *)
(* records and per-column indices, Rows/DictRows fan wide rows out to the  *)
(* record sets, Query.compile builds RelationProperty accessors.           *)
(*                                                                         *)
(* A stored record is referred to by its position in its record set's      *)
(* _records list (the list is append-only, so the position is the object's *)
(* identity).  None is modelled by the value 0.                            *)
(***************************************************************************)
EXTENDS Integers, Sequences, FiniteSets, TLC

\* ------------------------------------------------------------------ bounds
\* column values are None or 1..MaxVal
MaxVal == 2
\* total number of records stored over all record sets
MaxRecords == 3
\* longest iterable handed to extend
MaxRows == 2

None == 0
Values == 0..MaxVal

\* ------------------------------------------------------------- the schema
\* RecordSet(name, columns, uniques) declarations the model runs with
RecordSets == {"User", "Article", "Log"}

Columns(s) ==
    CASE s = "User"    -> <<"id", "name">>
      [] s = "Article" -> <<"id", "author_id">>
      [] s = "Log"     -> <<"tag">>

Uniques(s) ==
    CASE s = "User"    -> <<"id", "name">>
      [] s = "Article" -> <<"id">>
      [] s = "Log"     -> <<>>

Range(f) == {f[i] : i \in DOMAIN f}

\* Column(record_set, name)
Column(s, n) == [set |-> s, name |-> n]

\* tuples with one value per declared column
Tuples(s) == [1..Len(Columns(s)) -> Values]

\* ------------------------------------------------------------- primitives
\* owner._columns.index(self)
ColumnPos(s, n) == CHOOSE i \in 1..Len(Columns(s)) : Columns(s)[i] = n

\* getattr(record, col, None): Column.__get__ on an instance; a name that is
\* no attribute of the class gives the default
GetAttr(s, value, n) ==
    IF n \in Range(Columns(s)) THEN value[ColumnPos(s, n)] ELSE None

\* Column.is_unique
IsUnique(col) == col.name \in Range(Uniques(col.set))

\* RecordSet.__new__: no records, one empty index per unique column
NewRecords == [s \in RecordSets |-> <<>>]
NewIndices == [s \in RecordSets |-> [n \in Range(Uniques(s)) |-> <<>>]]

\* dict assignment d[k] = x on a dict modelled as a function
DictSet(d, k, x) == [j \in DOMAIN d \cup {k} |-> IF j = k THEN x ELSE d[j]]

\* a store: the _records and _indices of every record set
Store(recs, inds) == [records |-> recs, indices |-> inds]

Result(st, kind, val) == [st |-> st, kind |-> kind, val |-> val]

\* --------------------------------------------------- RecordSet.__call__
\* mutant: a multi-value index keeps only the last record of a value
IndexInsertOverwrite(s, inds, value, rid) ==
    [n \in DOMAIN inds |->
        LET v == GetAttr(s, value, n)
        IN  IF n \in Range(Uniques(s))
            THEN DictSet(inds[n], v, rid)
            ELSE DictSet(inds[n], v, <<rid>>)]

\* mutant: only the multi-value indices are updated
IndexInsertMultiOnly(s, inds, value, rid) ==
    [n \in DOMAIN inds |->
        LET v == GetAttr(s, value, n)
        IN  IF n \in Range(Uniques(s))
            THEN inds[n]
            ELSE DictSet(inds[n], v,
                         Append(IF v \in DOMAIN inds[n] THEN inds[n][v] ELSE <<>>, rid))]

\* lines 123-130: the index updates of one appended record (position rid)
IndexInsert(s, inds, value, rid) ==
    [n \in DOMAIN inds |->
        LET v == GetAttr(s, value, n)
        IN  IF n \in Range(Uniques(s))
            THEN DictSet(inds[n], v, rid)
            ELSE DictSet(inds[n], v,
                         Append(IF v \in DOMAIN inds[n] THEN inds[n][v] ELSE <<>>, rid))]

\* mutant: the assert before the append is missing
RecordSetCallNoAssert(st, s, value) ==
    LET recs == st.records[s]
        inds == st.indices[s]
        uniq == Uniques(s)
        key(i) == GetAttr(s, value, uniq[i])
        found(i) == IF key(i) \in DOMAIN inds[uniq[i]] THEN inds[uniq[i]][key(i)] ELSE 0
        rid == Len(recs) + 1
        added == Store([st.records EXCEPT ![s] = Append(recs, value)],
                       [st.indices EXCEPT ![s] = IndexInsert(s, inds, value, rid)])
    IN  IF \E i \in 1..Len(uniq) : key(i) = None
        THEN Result(st, "None", <<>>)
        ELSE IF Len(uniq) > 0 /\ \A i \in 1..Len(uniq) : found(i) # 0 /\ recs[found(i)] = value
        THEN Result(st, "existing", <<found(1)>>)
        ELSE Result(added, "new", <<rid>>)

\* mutant: the assert runs after the record was appended and indexed
RecordSetCallLateAssert(st, s, value) ==
    LET recs == st.records[s]
        inds == st.indices[s]
        uniq == Uniques(s)
        key(i) == GetAttr(s, value, uniq[i])
        found(i) == IF key(i) \in DOMAIN inds[uniq[i]] THEN inds[uniq[i]][key(i)] ELSE 0
        rid == Len(recs) + 1
        added == Store([st.records EXCEPT ![s] = Append(recs, value)],
                       [st.indices EXCEPT ![s] = IndexInsert(s, inds, value, rid)])
    IN  IF \E i \in 1..Len(uniq) : key(i) = None
        THEN Result(st, "None", <<>>)
        ELSE IF Len(uniq) > 0 /\ \A i \in 1..Len(uniq) : found(i) # 0 /\ recs[found(i)] = value
        THEN Result(st, "existing", <<found(1)>>)
        ELSE IF \E i \in 1..Len(uniq) : found(i) # 0
        THEN Result(added, "AssertionError", <<>>)
        ELSE Result(added, "new", <<rid>>)

\* mutant: the test for a None unique value is missing
RecordSetCallNoKeyCheck(st, s, value) ==
    LET recs == st.records[s]
        inds == st.indices[s]
        uniq == Uniques(s)
        key(i) == GetAttr(s, value, uniq[i])
        found(i) == IF key(i) \in DOMAIN inds[uniq[i]] THEN inds[uniq[i]][key(i)] ELSE 0
        rid == Len(recs) + 1
        added == Store([st.records EXCEPT ![s] = Append(recs, value)],
                       [st.indices EXCEPT ![s] = IndexInsert(s, inds, value, rid)])
    IN  IF Len(uniq) > 0 /\ \A i \in 1..Len(uniq) : found(i) # 0 /\ recs[found(i)] = value
        THEN Result(st, "existing", <<found(1)>>)
        ELSE IF \E i \in 1..Len(uniq) : found(i) # 0
        THEN Result(st, "AssertionError", <<>>)
        ELSE Result(added, "new", <<rid>>)

\* mutant: an equal stored record is not returned
RecordSetCallNoReturn(st, s, value) ==
    LET recs == st.records[s]
        inds == st.indices[s]
        uniq == Uniques(s)
        key(i) == GetAttr(s, value, uniq[i])
        found(i) == IF key(i) \in DOMAIN inds[uniq[i]] THEN inds[uniq[i]][key(i)] ELSE 0
        rid == Len(recs) + 1
        added == Store([st.records EXCEPT ![s] = Append(recs, value)],
                       [st.indices EXCEPT ![s] = IndexInsert(s, inds, value, rid)])
    IN  IF \E i \in 1..Len(uniq) : key(i) = None
        THEN Result(st, "None", <<>>)
        ELSE IF \E i \in 1..Len(uniq) : found(i) # 0
        THEN Result(st, "AssertionError", <<>>)
        ELSE Result(added, "new", <<rid>>)

\* mutant: the record is inserted at the head of _records
RecordSetCallPrepend(st, s, value) ==
    LET recs == st.records[s]
        inds == st.indices[s]
        uniq == Uniques(s)
        key(i) == GetAttr(s, value, uniq[i])
        found(i) == IF key(i) \in DOMAIN inds[uniq[i]] THEN inds[uniq[i]][key(i)] ELSE 0
        rid == Len(recs) + 1
        added == Store([st.records EXCEPT ![s] = Append(recs, value)],
                       [st.indices EXCEPT ![s] = IndexInsert(s, inds, value, rid)])
    IN  IF \E i \in 1..Len(uniq) : key(i) = None
        THEN Result(st, "None", <<>>)
        ELSE IF Len(uniq) > 0 /\ \A i \in 1..Len(uniq) : found(i) # 0 /\ recs[found(i)] = value
        THEN Result(st, "existing", <<found(1)>>)
        ELSE IF \E i \in 1..Len(uniq) : found(i) # 0
        THEN Result(st, "AssertionError", <<>>)
        ELSE Result(Store([st.records EXCEPT ![s] = <<value>> \o recs], added.indices), "new", <<rid>>)

\* mutant: a re-inserted record is entered into the indices again
RecordSetCallReindex(st, s, value) ==
    LET recs == st.records[s]
        inds == st.indices[s]
        uniq == Uniques(s)
        key(i) == GetAttr(s, value, uniq[i])
        found(i) == IF key(i) \in DOMAIN inds[uniq[i]] THEN inds[uniq[i]][key(i)] ELSE 0
        rid == Len(recs) + 1
        added == Store([st.records EXCEPT ![s] = Append(recs, value)],
                       [st.indices EXCEPT ![s] = IndexInsert(s, inds, value, rid)])
    IN  IF \E i \in 1..Len(uniq) : key(i) = None
        THEN Result(st, "None", <<>>)
        ELSE IF Len(uniq) > 0 /\ \A i \in 1..Len(uniq) : found(i) # 0 /\ recs[found(i)] = value
        THEN Result(Store(st.records,
                          [st.indices EXCEPT ![s] = IndexInsert(s, inds, value, found(1))]),
                    "existing", <<found(1)>>)
        ELSE IF \E i \in 1..Len(uniq) : found(i) # 0
        THEN Result(st, "AssertionError", <<>>)
        ELSE Result(added, "new", <<rid>>)

\* mutant: _records is one list shared by every record set
RecordSetCallSharedRecords(st, s, value) ==
    LET recs == st.records[s]
        inds == st.indices[s]
        uniq == Uniques(s)
        key(i) == GetAttr(s, value, uniq[i])
        found(i) == IF key(i) \in DOMAIN inds[uniq[i]] THEN inds[uniq[i]][key(i)] ELSE 0
        rid == Len(recs) + 1
    IN  IF \E i \in 1..Len(uniq) : key(i) = None
        THEN Result(st, "None", <<>>)
        ELSE IF Len(uniq) > 0 /\ \A i \in 1..Len(uniq) : found(i) # 0 /\ recs[found(i)] = value
        THEN Result(st, "existing", <<found(1)>>)
        ELSE IF \E i \in 1..Len(uniq) : found(i) # 0
        THEN Result(st, "AssertionError", <<>>)
        ELSE Result(Store([t \in DOMAIN st.records |-> Append(st.records[t], value)],
                          [st.indices EXCEPT ![s] = IndexInsert(s, inds, value, rid)]),
                    "new", <<rid>>)

\* mutant: a tuple equal to a stored record is never stored again, whatever
\* the unique columns
RecordSetCallScan(st, s, value) ==
    LET recs == st.records[s]
        inds == st.indices[s]
        uniq == Uniques(s)
        key(i) == GetAttr(s, value, uniq[i])
        found(i) == IF key(i) \in DOMAIN inds[uniq[i]] THEN inds[uniq[i]][key(i)] ELSE 0
        rid == Len(recs) + 1
        added == Store([st.records EXCEPT ![s] = Append(recs, value)],
                       [st.indices EXCEPT ![s] = IndexInsert(s, inds, value, rid)])
    IN  IF \E i \in 1..Len(uniq) : key(i) = None
        THEN Result(st, "None", <<>>)
        ELSE IF \E i \in DOMAIN recs : recs[i] = value
        THEN Result(st, "existing", <<CHOOSE i \in DOMAIN recs : recs[i] = value>>)
        ELSE IF \E i \in 1..Len(uniq) : found(i) # 0
        THEN Result(st, "AssertionError", <<>>)
        ELSE Result(added, "new", <<rid>>)

\* RecordSet.__call__(value): the outcome and the store after it
RecordSetCall(st, s, value) ==
    LET recs == st.records[s]
        inds == st.indices[s]
        uniq == Uniques(s)
        key(i) == GetAttr(s, value, uniq[i])
        \* self._indices[c].get(v, None); 0 stands for None
        found(i) == IF key(i) \in DOMAIN inds[uniq[i]] THEN inds[uniq[i]][key(i)] ELSE 0
        rid == Len(recs) + 1
    IN  IF \E i \in 1..Len(uniq) : key(i) = None
        THEN Result(st, "None", <<>>)
        ELSE IF Len(uniq) > 0 /\ \A i \in 1..Len(uniq) : found(i) # 0 /\ recs[found(i)] = value
        THEN Result(st, "existing", <<found(1)>>)
        ELSE IF \E i \in 1..Len(uniq) : found(i) # 0
        THEN Result(st, "AssertionError", <<>>)
        ELSE Result(Store([st.records EXCEPT ![s] = Append(recs, value)],
                          [st.indices EXCEPT ![s] = IndexInsert(s, inds, value, rid)]),
                    "new", <<rid>>)

\* ----------------------------------------------------- Rows / DictRows
\* Rows(*columns): a slot is a Column (a singleton here) or a ColumnSet
UserRows == <<{Column("User", "id")}, {Column("User", "name")}>>

\* Rows(User.id|User.name): one slot feeds both columns
PairRows == <<{Column("User", "id"), Column("User", "name")}>>

\* Rows(Article.id, Article.author_id|User.id, User.name)
WideRows == <<{Column("Article", "id")},
              {Column("Article", "author_id"), Column("User", "id")},
              {Column("User", "name")}>>

\* Rows(User.name, Article.author_id|User.id, Article.id): the slots of
\* WideRows in reverse order
WideRowsReversed == <<{Column("User", "name")},
                      {Column("Article", "author_id"), Column("User", "id")},
                      {Column("Article", "id")}>>

\* Rows(User.id|Article.id, User.name|Article.author_id, Log.tag)
TripleRows == <<{Column("User", "id"), Column("Article", "id")},
                {Column("User", "name"), Column("Article", "author_id")},
                {Column("Log", "tag")}>>

\* Rows(User.id): no slot names User.name
IdRows == <<{Column("User", "id")}>>

\* DictRows(id=Article.id): no slot names Article.author_id
IdDictRows == [k \in {"id"} |-> {Column("Article", "id")}]

\* DictRows(id=Article.id|Log.tag, author=Article.author_id)
TaggedRows == [k \in {"id", "author"} |->
                 IF k = "id" THEN {Column("Article", "id"), Column("Log", "tag")}
                 ELSE {Column("Article", "author_id")}]

\* the rows a loader is fed: one value per slot
RowsOf(columns) == [DOMAIN columns -> Values]

\* record_sets of __init__
LoaderSets(columns) == {c.set : c \in UNION Range(columns)}

\* the orders a set of record sets can be iterated in
Orders(S) == {o \in [1..Cardinality(S) -> S] : Range(o) = S}

\* the columns of record set s, as Column objects in declared order
ColumnsOf(s) == [j \in DOMAIN Columns(s) |-> Column(s, Columns(s)[j])]

\* mutant: column_indices is keyed by the record set, so every column of a
\* record set is read at the last slot that names one of its columns
ColumnIndexBySet(columns, col) ==
    LET slots == {i \in DOMAIN columns : \E c \in columns[i] : c.set = col.set}
    IN  CHOOSE i \in slots : \A j \in slots : j <= i

\* Rows.__init__: column_indices[col] is the position of the slot that names
\* col, a later slot overwriting an earlier one
ColumnIndex(columns, col) ==
    LET slots == {i \in DOMAIN columns : col \in columns[i]}
    IN  CHOOSE i \in slots : \A j \in slots : j <= i

\* Rows.__init__, the record sets iterated in `order`: _column_maps, or
\* KeyError when a column of a referenced record set has no slot
RowsInit(columns, order) ==
    IF \E i \in DOMAIN order : \E c \in Range(ColumnsOf(order[i])) :
           c \notin UNION Range(columns)
    THEN [kind |-> "KeyError", maps |-> <<>>]
    ELSE [kind |-> "ok",
          maps |-> [i \in DOMAIN order |->
                     <<order[i],
                       [j \in DOMAIN Columns(order[i]) |->
                          ColumnIndex(columns, ColumnsOf(order[i])[j])]>>]]

\* DictRows.__init__: column_indices[col] is the key of the slot that names
\* col (the specifications here name a column under one key)
DictColumnIndex(columns, col) == CHOOSE k \in DOMAIN columns : col \in columns[k]

\* DictRows.__init__, the record sets iterated in `order`
DictRowsInit(columns, order) ==
    IF \E i \in DOMAIN order : \E c \in Range(ColumnsOf(order[i])) :
           c \notin UNION Range(columns)
    THEN [kind |-> "KeyError", maps |-> <<>>]
    ELSE [kind |-> "ok",
          maps |-> [i \in DOMAIN order |->
                     <<order[i],
                       [j \in DOMAIN Columns(order[i]) |->
                          DictColumnIndex(columns, ColumnsOf(order[i])[j])]>>]]

\* the sub-tuple of obj for one column map
SubTuple(obj, column_map) == [j \in DOMAIN column_map |-> obj[column_map[j]]]

RECURSIVE AppendFrom(_, _, _, _)
\* the loop of append from the i-th column map on; an exception ends it
AppendFrom(st, maps, obj, i) ==
    IF i > Len(maps)
    THEN Result(st, "ok", <<>>)
    ELSE LET r == RecordSetCall(st, maps[i][1], SubTuple(obj, maps[i][2]))
         IN  IF r.kind = "AssertionError"
             THEN Result(r.st, "AssertionError", <<>>)
             ELSE AppendFrom(r.st, maps, obj, i + 1)

\* mutant: a row that is incomplete for one record set is dropped whole
RowsAppendWholeRows(st, maps, obj) ==
    IF \E i \in DOMAIN maps : \E n \in Range(Uniques(maps[i][1])) :
           GetAttr(maps[i][1], SubTuple(obj, maps[i][2]), n) = None
    THEN Result(st, "ok", <<>>)
    ELSE AppendFrom(st, maps, obj, 1)

\* Rows.append(obj) / DictRows.append(obj)
RowsAppend(st, maps, obj) == AppendFrom(st, maps, obj, 1)

RECURSIVE ExtendFrom(_, _, _, _)
\* the loop of extend from the k-th row on; an exception ends it
ExtendFrom(st, maps, rows, k) ==
    IF k > Len(rows)
    THEN Result(st, "ok", <<>>)
    ELSE LET r == RowsAppend(st, maps, rows[k])
         IN  IF r.kind = "AssertionError"
             THEN r
             ELSE ExtendFrom(r.st, maps, rows, k + 1)

\* mutant: extend returns after its first row
RowsExtendFirstOnly(st, maps, rows) ==
    IF rows = <<>> THEN Result(st, "ok", <<>>) ELSE RowsAppend(st, maps, rows[1])

\* mutant: a failed extend restores the store it started from
RowsExtendAtomic(st, maps, rows) ==
    LET r == ExtendFrom(st, maps, rows, 1)
    IN  IF r.kind = "ok" THEN r ELSE Result(st, r.kind, <<>>)

\* Rows.extend(iterable) / DictRows.extend(iterable)
RowsExtend(st, maps, rows) == ExtendFrom(st, maps, rows, 1)

\* ------------------------------------------- Query / RelationProperty
\* Query(record_set).join(name=col)...: the chains the model compiles
Query(s, joins) == [set |-> s, joins |-> joins]

QAuthor   == Query("Article", << <<"author_id", Column("User", "id")>> >>)
QArticles == Query("User",    << <<"id", Column("Article", "author_id")>> >>)
QSiblings == Query("Article", << <<"author_id", Column("User", "id")>>,
                                 <<"id", Column("Article", "author_id")>> >>)
QAuthors  == Query("User",    << <<"id", Column("Article", "author_id")>>,
                                 <<"author_id", Column("User", "id")>> >>)
QTagged   == Query("User",    << <<"id", Column("Article", "author_id")>>,
                                 <<"id", Column("Log", "tag")>> >>)
QSelf     == Query("Article", << <<"author_id", Column("User", "id")>>,
                                 <<"name", Column("User", "name")>> >>)

Queries == {QAuthor, QArticles, QSiblings, QAuthors, QTagged, QSelf}

\* mutant: the local column of a hop is the first column of the current set
JoinsFirstColumn(q) ==
    [i \in DOMAIN q.joins |->
        <<Column(IF i = 1 THEN q.set ELSE q.joins[i - 1][2].set,
                 Columns(IF i = 1 THEN q.set ELSE q.joins[i - 1][2].set)[1]),
          q.joins[i][2]>>]

\* the pairs (getattr(current, name), col) compile collects
Joins(q) ==
    [i \in DOMAIN q.joins |->
        <<Column(IF i = 1 THEN q.set ELSE q.joins[i - 1][2].set, q.joins[i][1]),
          q.joins[i][2]>>]

\* mutant: compile installs a fresh empty index for every remote column
CreateIndicesFresh(inds, q) ==
    [s \in RecordSets |->
        LET wanted == {q.joins[i][2].name : i \in {j \in DOMAIN q.joins : q.joins[j][2].set = s}}
        IN  [n \in DOMAIN inds[s] \cup wanted |->
                IF n \in wanted THEN <<>> ELSE inds[s][n]]]

\* the loop of compile: an empty index for every remote column that has none
CreateIndices(inds, q) ==
    [s \in RecordSets |->
        LET wanted == {q.joins[i][2].name : i \in {j \in DOMAIN q.joins : q.joins[j][2].set = s}}
        IN  [n \in DOMAIN inds[s] \cup wanted |->
                IF n \in DOMAIN inds[s] THEN inds[s][n] ELSE <<>>]]

\* the assert of compile
TooManyManies(joins) ==
    Cardinality({i \in DOMAIN joins : IsUnique(joins[i][2])}) > 1

\* Query.compile(): the indices after it, and the RelationProperty's joins
QueryCompile(st, q) ==
    LET made == Store(st.records, CreateIndices(st.indices, q))
    IN  IF TooManyManies(Joins(q))
        THEN Result(made, "AssertionError", <<>>)
        ELSE Result(made, "ok", Joins(q))

\* Column.__getitem__(key): self._set._indices[self._name][key]
ColumnGetItem(st, col, key) ==
    LET index == st.indices[col.set][col.name]
    IN  IF key \in DOMAIN index
        THEN [kind |-> "ok", val |-> index[key]]
        ELSE [kind |-> "KeyError", val |-> 0]

RECURSIVE GetFrom(_, _, _, _, _)
\* the loop of __get__ from the i-th join on.  result is the position of a
\* record of record set `cur` while many is FALSE, a list afterwards
GetFrom(st, joins, i, many, result) ==
    IF i > Len(joins)
    THEN result
    ELSE LET l == joins[i][1]
             r == joins[i][2]
         IN  IF ~many
             THEN LET hit == ColumnGetItem(st, r,
                                 GetAttr(l.set, st.records[l.set][result.val[1]], l.name))
                  IN  IF hit.kind = "KeyError"
                      THEN [kind |-> "KeyError", set |-> r.set, val |-> <<>>]
                      ELSE IF IsUnique(r)
                      THEN GetFrom(st, joins, i + 1, FALSE,
                                   [kind |-> "record", set |-> r.set, val |-> <<hit.val>>])
                      ELSE GetFrom(st, joins, i + 1, TRUE,
                                   [kind |-> "list", set |-> r.set, val |-> hit.val])
             ELSE GetFrom(st, joins, i + 1, TRUE,
                          [kind |-> "values", set |-> "",
                           val |-> [k \in DOMAIN result.val |->
                                      GetAttr(l.set, st.records[l.set][result.val[k]], l.name)]])

\* mutant: a missing key is swallowed and an empty list returned
RelationGetSilent(st, joins, s, rid) ==
    LET r == GetFrom(st, joins, 1, FALSE, [kind |-> "record", set |-> s, val |-> <<rid>>])
    IN  IF r.kind = "KeyError" THEN [kind |-> "list", set |-> r.set, val |-> <<>>] ELSE r

\* RelationProperty.__get__(instance, owner), instance the rid-th record of s
RelationGet(st, joins, s, rid) ==
    GetFrom(st, joins, 1, FALSE, [kind |-> "record", set |-> s, val |-> <<rid>>])

\* ---------------------------------------------------------------- state
\* records, indices: _records and _indices of every record set
\* born:  for every index, the number of records its record set held when the
\*        index was created (history; 0 for the indices of __new__)
\* ret:   the last operation and what it returned or raised
VARIABLES records, indices, born, ret

vars == <<records, indices, born, ret>>

TotalRecords(recs) ==
    Len(recs["User"]) + Len(recs["Article"]) + Len(recs["Log"])

Cur == Store(records, indices)

Ret(op, kind, val) == [op |-> op, kind |-> kind, val |-> val]

Init ==
    /\ records = NewRecords
    /\ indices = NewIndices
    /\ born = [s \in RecordSets |-> [n \in Range(Uniques(s)) |-> 0]]
    /\ ret = Ret("init", "ok", <<>>)

\* s(value) called directly
Construct(s, value) ==
    LET r == RecordSetCall(Cur, s, value)
    IN  /\ TotalRecords(r.st.records) <= MaxRecords
        /\ records' = r.st.records
        /\ indices' = r.st.indices
        /\ ret' = Ret("construct", r.kind, r.val)
        /\ UNCHANGED born

\* Rows(*columns).append(obj) / DictRows(**columns).append(obj); init is
\* the outcome of the loader's __init__
LoaderAppend(init, obj) ==
    LET r == IF init.kind = "ok" THEN RowsAppend(Cur, init.maps, obj)
             ELSE Result(Cur, init.kind, <<>>)
    IN  /\ TotalRecords(r.st.records) <= MaxRecords
        /\ records' = r.st.records
        /\ indices' = r.st.indices
        /\ ret' = Ret("append", r.kind, <<>>)
        /\ UNCHANGED born

\* Rows(*columns).extend(rows) / DictRows(**columns).extend(rows)
LoaderExtend(init, rows) ==
    LET r == IF init.kind = "ok" THEN RowsExtend(Cur, init.maps, rows)
             ELSE Result(Cur, init.kind, <<>>)
    IN  /\ TotalRecords(r.st.records) <= MaxRecords
        /\ records' = r.st.records
        /\ indices' = r.st.indices
        /\ ret' = Ret("extend", r.kind, <<Len(rows)>>)
        /\ UNCHANGED born

\* Query(...).join(...).compile()
Compile(q) ==
    LET r == QueryCompile(Cur, q)
    IN  /\ indices' = r.st.indices
        /\ born' = [s \in RecordSets |->
                      [n \in DOMAIN r.st.indices[s] |->
                         IF n \in DOMAIN born[s] THEN born[s][n] ELSE Len(records[s])]]
        /\ ret' = Ret("compile", r.kind, <<>>)
        /\ UNCHANGED records

\* A RelationProperty holds only its joins, so q has a RelationProperty in
\* every state in which q.compile() has returned one: then its indices exist
Compiled(q) ==
    LET r == QueryCompile(Cur, q)
    IN  r.kind = "ok" /\ r.st = Cur

\* record.relation: q's RelationProperty read on the rid-th record of q.set
Get(q, rid) ==
    /\ Compiled(q)
    /\ rid \in DOMAIN records[q.set]
    /\ LET r == RelationGet(Cur, Joins(q), q.set, rid)
       IN  ret' = Ret("get", r.kind, r.val)
    /\ UNCHANGED <<records, indices, born>>

RowSeqs(columns) == UNION {[1..n -> RowsOf(columns)] : n \in 0..MaxRows}

\* direct calls of the record sets
TableStep == \E s \in RecordSets : \E value \in Tuples(s) : Construct(s, value)

\* one row through Rows(User.id, User.name) or through the DictRows loader
AppendStep ==
    \/ \E order \in Orders(LoaderSets(UserRows)) : \E obj \in RowsOf(UserRows) :
         LoaderAppend(RowsInit(UserRows, order), obj)
    \/ \E order \in Orders(LoaderSets(TaggedRows)) : \E obj \in RowsOf(TaggedRows) :
         LoaderAppend(DictRowsInit(TaggedRows, order), obj)

\* one row through Rows(Article.id, Article.author_id|User.id, User.name)
WideAppendStep ==
    \E order \in Orders(LoaderSets(WideRows)) : \E obj \in RowsOf(WideRows) :
        LoaderAppend(RowsInit(WideRows, order), obj)

\* one row through Rows(User.id|Article.id, User.name|Article.author_id, Log.tag)
TripleAppendStep ==
    \E order \in Orders(LoaderSets(TripleRows)) : \E obj \in RowsOf(TripleRows) :
        LoaderAppend(RowsInit(TripleRows, order), obj)

\* one row through a loader whose slots leave out a column of a record set
\* they name: Rows(User.id), DictRows(id=Article.id)
PartialAppendStep ==
    \/ \E order \in Orders(LoaderSets(IdRows)) : \E obj \in RowsOf(IdRows) :
         LoaderAppend(RowsInit(IdRows, order), obj)
    \/ \E order \in Orders(LoaderSets(IdDictRows)) : \E obj \in RowsOf(IdDictRows) :
         LoaderAppend(DictRowsInit(IdDictRows, order), obj)

\* an iterable of rows through Rows(User.id, User.name)
ExtendStep ==
    \E order \in Orders(LoaderSets(UserRows)) : \E rows \in RowSeqs(UserRows) :
        LoaderExtend(RowsInit(UserRows, order), rows)

\* an iterable of rows through Rows(User.id|User.name)
PairExtendStep ==
    \E order \in Orders(LoaderSets(PairRows)) : \E rows \in RowSeqs(PairRows) :
        LoaderExtend(RowsInit(PairRows, order), rows)

\* an iterable of rows through the DictRows loader of two record sets
DictExtendStep ==
    \E order \in Orders(LoaderSets(TaggedRows)) : \E rows \in RowSeqs(TaggedRows) :
        LoaderExtend(DictRowsInit(TaggedRows, order), rows)

CompileStep == \E q \in Queries : Compile(q)

GetStep == \E q \in Queries : \E rid \in 1..MaxRecords : Get(q, rid)

\* every operation that changes a record set
Next == TableStep \/ AppendStep \/ PairExtendStep \/ CompileStep

Spec == Init /\ [][Next]_vars

\* direct calls only
SpecTable == Init /\ [][TableStep]_vars

\* bulk loading only
NextLoad == AppendStep \/ ExtendStep \/ DictExtendStep

SpecLoad == Init /\ [][NextLoad]_vars

\* direct calls and bulk loading, no relations
NextInsert == TableStep \/ AppendStep \/ ExtendStep

SpecInsert == Init /\ [][NextInsert]_vars

\* single rows through every loader
NextFan == AppendStep \/ WideAppendStep \/ TripleAppendStep \/ PartialAppendStep

SpecFan == Init /\ [][NextFan]_vars

\* direct calls and compile
NextIndex == TableStep \/ CompileStep

SpecIndex == Init /\ [][NextIndex]_vars

\* relations: compile, load, read
NextJoin == CompileStep \/ WideAppendStep \/ GetStep

SpecJoin == Init /\ [][NextJoin]_vars

\* ===================================================================
\* Properties
\* ===================================================================
Count(recs, value) == Cardinality({i \in DOMAIN recs : recs[i] = value})

IsPrefix(a, b) == Len(a) <= Len(b) /\ \A i \in DOMAIN a : a[i] = b[i]

\* no value of the tuple or row is None
Full(tuple) == \A i \in DOMAIN tuple : tuple[i] # None

\* every unique column of the tuple has a value
HasKeys(s, value) == \A n \in Range(Uniques(s)) : GetAttr(s, value, n) # None

\* the record sets that declare a unique column
KeyedSets == {s \in RecordSets : Uniques(s) # <<>>}

\* the sub-tuple a loader hands to record set s
SubTupleFor(maps, s, obj) ==
    SubTuple(obj, maps[CHOOSE i \in DOMAIN maps : maps[i][1] = s][2])

\* the same tuple constructed twice in the record sets S
TwiceConstructed(S) ==
    \A s \in S : \A value \in Tuples(s) :
        LET r1 == RecordSetCall(Cur, s, value)
            r2 == RecordSetCall(r1.st, s, value)
        IN  (Full(value) /\ r1.kind \in {"new", "existing"}) =>
                /\ r2.kind = "existing"
                /\ r2.val = r1.val
                /\ r2.st = r1.st
                /\ r2.st.records[s][r2.val[1]] = value
                /\ Count(r2.st.records[s], value) = 1

\* the same row appended twice, and extended twice over, by one loader
TwiceLoaded(S, init, rowset) ==
    \A obj \in rowset :
        LET a1 == RowsAppend(Cur, init.maps, obj)
            a2 == RowsAppend(a1.st, init.maps, obj)
            e2 == RowsExtend(Cur, init.maps, <<obj, obj>>)
        IN  (Full(obj) /\ a1.kind = "ok") =>
                /\ a2.kind = "ok"
                /\ e2.kind = "ok"
                /\ \A i \in DOMAIN init.maps :
                     LET s == init.maps[i][1]
                     IN  s \in S =>
                           /\ a2.st.records[s] = a1.st.records[s]
                           /\ a2.st.indices[s] = a1.st.indices[s]
                           /\ e2.st.records[s] = a1.st.records[s]
                           /\ Count(a2.st.records[s], SubTupleFor(init.maps, s, obj)) = 1

\* no full tuple is stored twice in a record set of S
StoredOnce(S) ==
    \A s \in S : \A i \in DOMAIN records[s] :
        Full(records[s][i]) => Count(records[s], records[s][i]) = 1

Idempotent(S) ==
    /\ StoredOnce(S)
    /\ TwiceConstructed(S)
    /\ \A order \in Orders(LoaderSets(UserRows)) :
         TwiceLoaded(S, RowsInit(UserRows, order), RowsOf(UserRows))
    /\ \A order \in Orders(LoaderSets(WideRows)) :
         TwiceLoaded(S, RowsInit(WideRows, order), RowsOf(WideRows))
    /\ \A order \in Orders(LoaderSets(TaggedRows)) :
         TwiceLoaded(S, DictRowsInit(TaggedRows, order), RowsOf(TaggedRows))

\* C1 as stated, for ANY record set: a full tuple inserted twice leaves
\* exactly one stored record, so no reachable state holds a full tuple twice.
C1_AnyTable == StoredOnce(RecordSets)

\* C1 (amended): in every record set that declares at least one unique
\* column, a full tuple inserted twice (by a direct call, or by append/extend
\* of a loader) is stored exactly once, the second insert changes neither the
\* records nor the indices and returns the record stored by the first.
C1_IdempotentInsert == Idempotent(KeyedSets)

C1_Witness ==
    /\ ret.op = "construct" /\ ret.kind = "existing"
    /\ \E s \in KeyedSets : \E i \in DOMAIN records[s] : Full(records[s][i])

\* ---- C2
\* value shares a unique-column value with a stored record that differs from it
SharesKey(s, value) ==
    \E i \in DOMAIN records[s] : \E n \in Range(Uniques(s)) :
        /\ GetAttr(s, value, n) = GetAttr(s, records[s][i], n)
        /\ records[s][i] # value

\* the unique-index lookups of value: 0 for a miss, else the record hit
Lookups(s, value) ==
    [i \in DOMAIN Uniques(s) |->
        LET v == GetAttr(s, value, Uniques(s)[i])
        IN  IF v \in DOMAIN indices[s][Uniques(s)[i]]
            THEN indices[s][Uniques(s)[i]][v] ELSE 0]

\* some lookups hit and others miss, or two lookups hit different records
Inconsistent(s, value) ==
    LET l == Lookups(s, value)
    IN  \E i, j \in DOMAIN l : l[i] # 0 /\ l[j] # l[i]

\* C2 as stated: every tuple that shares a unique-column value with a stored
\* record and differs from it, or whose lookups are inconsistent, raises and
\* leaves records and indices as they were.
C2_AnyTuple ==
    \A s \in RecordSets : \A value \in Tuples(s) :
        (SharesKey(s, value) \/ Inconsistent(s, value)) =>
            LET r == RecordSetCall(Cur, s, value)
            IN  r.kind = "AssertionError" /\ r.st = Cur

\* C2 (amended): a tuple whose unique-column values are all present, and that
\* shares a unique-column value with a stored record that differs from it in
\* another field (or whose unique-index lookups are inconsistent), raises
\* AssertionError and leaves the records and every index of the record set
\* exactly as they were.
C2_ConflictDetection ==
    \A s \in RecordSets : \A value \in Tuples(s) :
        (HasKeys(s, value) /\ (SharesKey(s, value) \/ Inconsistent(s, value))) =>
            LET r == RecordSetCall(Cur, s, value)
            IN  r.kind = "AssertionError" /\ r.st = Cur

C2_Witness ==
    /\ ret.op = "construct" /\ ret.kind = "AssertionError"
    /\ Len(records["User"]) = 2

\* ---- C3
\* C3: no two records stored in a record set share a value in a declared
\* unique column, in every state reached by construct, append, extend and
\* compile.
C3_Uniqueness ==
    \A s \in RecordSets : \A i, j \in DOMAIN records[s] : \A n \in Range(Uniques(s)) :
        i # j => GetAttr(s, records[s][i], n) # GetAttr(s, records[s][j], n)

C3_Witness ==
    /\ ret.kind = "AssertionError"
    /\ Len(records["User"]) >= 1 /\ Len(records["Article"]) >= 2

\* ---- C5
\* C5: constructing a tuple with None in a unique column returns None and
\* changes neither the records nor any index of the record set.
C5_KeyCompleteness ==
    \A s \in RecordSets : \A value \in Tuples(s) :
        ~HasKeys(s, value) =>
            LET r == RecordSetCall(Cur, s, value)
            IN  r.kind = "None" /\ r.val = <<>> /\ r.st = Cur

C5_Witness ==
    /\ ret.op = "construct" /\ ret.kind = "None"
    /\ Len(records["User"]) >= 1 /\ Len(records["Article"]) >= 1

\* ---- C6
\* RecordSet.__iter__: the records in list order
Iter(s) == [i \in 1..Len(records[s]) |-> records[s][i]]

\* C6: the record list only grows at its end: what iteration yielded before
\* an operation is a prefix of what it yields after it; a direct call that
\* admits a record appends exactly that one record, which it returns, and a
\* call that admits none leaves every list as it was.
C6_OrderPreservation ==
    [][/\ \A s \in RecordSets : IsPrefix(Iter(s), Iter(s)')
       /\ ret'.op = "construct" =>
            IF ret'.kind = "new"
            THEN \E s \in RecordSets :
                   /\ Len(Iter(s)') = Len(Iter(s)) + 1
                   /\ ret'.val = <<Len(Iter(s)')>>
                   /\ \A t \in RecordSets \ {s} : Iter(t)' = Iter(t)
            ELSE \A s \in RecordSets : Iter(s)' = Iter(s)]_vars

C6_Witness ==
    /\ ret.op = "construct" /\ ret.kind = "new" /\ ret.val = <<2>>
    /\ Len(records["Article"]) = 2
    /\ records["Article"][1][1] = 2 /\ records["Article"][2][1] = 1

\* ---- C4
\* the hops of q whose remote column is not unique
NonUniqueHops(q) == {i \in DOMAIN q.joins : ~IsUnique(q.joins[i][2])}

\* C4: compile() fails exactly when two or more hops of the chain have a
\* non-unique remote column.
C4_JoinValidation ==
    [][\A q \in Queries :
          Compile(q) => (ret'.kind = "AssertionError" <=> Cardinality(NonUniqueHops(q)) >= 2)]_vars

\* ---- C7, C8, C9
\* the positions, in insertion order, of the records of s whose column n is v
Positions(s, n, v) ==
    SelectSeq([j \in 1..Len(records[s]) |-> j],
              LAMBDA j : GetAttr(s, records[s][j], n) = v)

\* the value of the local column of q's first hop in the rid-th record of q.set
LocalValue(q, rid) == GetAttr(q.set, records[q.set][rid], q.joins[1][1])

Remote(q) == q.joins[1][2]

\* C7: a compiled single-hop relation whose remote column is unique, read on
\* a record r, is the one record of the remote set whose remote column equals
\* r's local column (a record, not a list); with no such record the read
\* raises KeyError.
C7_ScalarRelation ==
    \A q \in Queries :
        (Len(q.joins) = 1 /\ IsUnique(Remote(q)) /\ Compiled(q)) =>
            \A rid \in DOMAIN records[q.set] :
                LET res == RelationGet(Cur, Joins(q), q.set, rid)
                    m == Positions(Remote(q).set, Remote(q).name, LocalValue(q, rid))
                IN  IF m = <<>>
                    THEN res.kind = "KeyError"
                    ELSE res.kind = "record" /\ res.set = Remote(q).set /\ res.val = m

C7_Witness ==
    /\ ret.op = "get" /\ ret.kind = "record" /\ ret.val = <<2>>
    /\ Len(records["User"]) = 2
    /\ \E i \in DOMAIN records["Article"] :
         records["Article"][i][2] = records["User"][2][1]

\* C8: a single-hop relation whose remote column is non-unique, compiled while
\* the remote set was empty, read on a record r, is the list of the remote
\* set's records whose remote column equals r's local column, in insertion
\* order (a list also when it has one element); with no such record the read
\* raises KeyError.
C8_ListRelation ==
    \A q \in Queries :
        (/\ Len(q.joins) = 1 /\ ~IsUnique(Remote(q)) /\ Compiled(q)
         /\ born[Remote(q).set][Remote(q).name] = 0) =>
            \A rid \in DOMAIN records[q.set] :
                LET res == RelationGet(Cur, Joins(q), q.set, rid)
                    m == Positions(Remote(q).set, Remote(q).name, LocalValue(q, rid))
                IN  IF m = <<>>
                    THEN res.kind = "KeyError"
                    ELSE res.kind = "list" /\ res.set = Remote(q).set /\ res.val = m

C8_Witness ==
    /\ ret.op = "get" /\ ret.kind = "list" /\ ret.val = <<1, 2>>
    /\ "author_id" \in DOMAIN born["Article"] /\ born["Article"]["author_id"] = 0

\* a lookup made in scalar mode finds no entry for its key: the first hop's,
\* or the second hop's after a unique first hop
ScalarMiss(q, rid) ==
    LET r1 == q.joins[1][2]
        k1 == LocalValue(q, rid)
        i1 == indices[r1.set][r1.name]
    IN  \/ k1 \notin DOMAIN i1
        \/ /\ Len(q.joins) = 2 /\ IsUnique(r1)
           /\ GetAttr(r1.set, records[r1.set][i1[k1]], q.joins[2][1])
                 \notin DOMAIN indices[q.joins[2][2].set][q.joins[2][2].name]

\* C9: reading a compiled relation on a record whose hop key has no entry in
\* the hop's index raises KeyError; a read never returns an empty list.
C9_LookupMiss ==
    \A q \in Queries :
        Compiled(q) =>
            \A rid \in DOMAIN records[q.set] :
                LET res == RelationGet(Cur, Joins(q), q.set, rid)
                IN  /\ ScalarMiss(q, rid) => res.kind = "KeyError"
                    /\ res.kind \in {"record", "list", "values", "KeyError"}
                    /\ res.kind \in {"record", "list", "values"} => res.val # <<>>

C9_Witness ==
    /\ ret.op = "get" /\ ret.kind = "KeyError"
    /\ "author_id" \in DOMAIN indices["Article"]
    /\ \E i \in DOMAIN records["User"] :
         records["User"][i][1] \notin DOMAIN indices["Article"]["author_id"]

\* ---- C10
RECURSIVE Sequential(_, _, _)
\* append called once for every row, in order, whatever the calls before it
\* raised: the store after the last call and the first row that raised (0: none)
Sequential(st, maps, rows) ==
    IF rows = <<>>
    THEN [st |-> st, failed |-> 0]
    ELSE LET before == Sequential(st, maps, SubSeq(rows, 1, Len(rows) - 1))
             r == RowsAppend(before.st, maps, rows[Len(rows)])
         IN  [st |-> r.st,
              failed |-> IF before.failed = 0 /\ r.kind # "ok"
                         THEN Len(rows) ELSE before.failed]

ExtendIsSequential(init, rowseqs) ==
    \A rows \in rowseqs :
        RowsExtend(Cur, init.maps, rows).st = Sequential(Cur, init.maps, rows).st

ExtendIsSequentialUntilFailure(init, rowseqs) ==
    \A rows \in rowseqs :
        LET ext == RowsExtend(Cur, init.maps, rows)
            seq == Sequential(Cur, init.maps, rows)
        IN  IF seq.failed = 0
            THEN ext.kind = "ok" /\ ext.st = seq.st
            ELSE /\ ext.kind = "AssertionError"
                 /\ ext.st = Sequential(Cur, init.maps, SubSeq(rows, 1, seq.failed)).st

\* C10 as stated: extend(rows) leaves every record set as the N append calls
\* on the same rows do, for any rows.
C10_AnyRows ==
    /\ \A order \in Orders(LoaderSets(UserRows)) :
         ExtendIsSequential(RowsInit(UserRows, order), RowSeqs(UserRows))
    /\ \A order \in Orders(LoaderSets(TaggedRows)) :
         ExtendIsSequential(DictRowsInit(TaggedRows, order), RowSeqs(TaggedRows))

\* C10 (amended): when none of the N append calls raises, extend(rows) leaves
\* the records and indices of every record set as the N calls do; when the
\* k-th is the first to raise, extend raises too and leaves them as the first
\* k calls do (the rows after the k-th are not processed).
C10_BulkSequential ==
    /\ \A order \in Orders(LoaderSets(UserRows)) :
         ExtendIsSequentialUntilFailure(RowsInit(UserRows, order), RowSeqs(UserRows))
    /\ \A order \in Orders(LoaderSets(TaggedRows)) :
         ExtendIsSequentialUntilFailure(DictRowsInit(TaggedRows, order), RowSeqs(TaggedRows))

C10_Witness ==
    /\ ret.op = "extend" /\ ret.kind = "ok" /\ ret.val = <<2>>
    /\ Len(records["User"]) = 2

\* ---- C11
\* the sub-tuple the i-th column map of a loader takes from obj
Sub(maps, i, obj) == SubTuple(obj, maps[i][2])

\* what the call of the i-th record set of a loader gives from the current state
CallOf(maps, i, obj) == RecordSetCall(Cur, maps[i][1], Sub(maps, i, obj))

\* the column maps for whose record set the row lacks a unique value
Incomplete(maps, obj) == {i \in DOMAIN maps : ~HasKeys(maps[i][1], Sub(maps, i, obj))}

\* st2 holds for record set s what the current state holds
Untouched(st2, s) == st2.records[s] = records[s] /\ st2.indices[s] = indices[s]

\* st2 holds for the i-th record set what its call from the current state leaves
Received(st2, maps, i, obj) ==
    /\ st2.records[maps[i][1]] = CallOf(maps, i, obj).st.records[maps[i][1]]
    /\ st2.indices[maps[i][1]] = CallOf(maps, i, obj).st.indices[maps[i][1]]

\* no call before the i-th raises
Reached(maps, i, obj) == \A j \in 1..(i - 1) : CallOf(maps, j, obj).kind # "AssertionError"

IncompleteRowNeverRaises(init, rowset) ==
    \A obj \in rowset : \A i \in Incomplete(init.maps, obj) :
        LET a == RowsAppend(Cur, init.maps, obj)
        IN  /\ Untouched(a.st, init.maps[i][1])
            /\ a.kind = "ok"
            /\ \A j \in DOMAIN init.maps \ {i} :
                 HasKeys(init.maps[j][1], Sub(init.maps, j, obj)) =>
                     Received(a.st, init.maps, j, obj)

IncompleteRowSkipped(init, rowset) ==
    \A obj \in rowset : \A i \in Incomplete(init.maps, obj) :
        LET a == RowsAppend(Cur, init.maps, obj)
        IN  /\ Untouched(a.st, init.maps[i][1])
            /\ CallOf(init.maps, i, obj).kind = "None"
            /\ a.kind = IF \E j \in DOMAIN init.maps : CallOf(init.maps, j, obj).kind = "AssertionError"
                        THEN "AssertionError" ELSE "ok"
            /\ \A j \in DOMAIN init.maps \ {i} :
                 IF Reached(init.maps, j, obj)
                 THEN Received(a.st, init.maps, j, obj)
                 ELSE Untouched(a.st, init.maps[j][1])

\* C11 as stated: a row that lacks a unique value for one record set of the
\* loader leaves that record set unchanged, raises nothing, and every other
\* record set whose unique values are present receives its sub-tuple.
C11_AnyRow ==
    /\ \A order \in Orders(LoaderSets(WideRows)) :
         IncompleteRowNeverRaises(RowsInit(WideRows, order), RowsOf(WideRows))
    /\ \A order \in Orders(LoaderSets(TripleRows)) :
         IncompleteRowNeverRaises(RowsInit(TripleRows, order), RowsOf(TripleRows))
    /\ \A order \in Orders(LoaderSets(TaggedRows)) :
         IncompleteRowNeverRaises(DictRowsInit(TaggedRows, order), RowsOf(TaggedRows))

\* C11 (amended): a row that lacks a unique value for one record set of the
\* loader leaves that record set unchanged and that record set's call returns
\* None without raising; the append raises only if the sub-tuple of another
\* record set conflicts, and every other record set processed before such a
\* failure receives its sub-tuple (the ones after it are left unchanged).
C11_IncompleteRow ==
    /\ \A order \in Orders(LoaderSets(WideRows)) :
         IncompleteRowSkipped(RowsInit(WideRows, order), RowsOf(WideRows))
    /\ \A order \in Orders(LoaderSets(TripleRows)) :
         IncompleteRowSkipped(RowsInit(TripleRows, order), RowsOf(TripleRows))
    /\ \A order \in Orders(LoaderSets(TaggedRows)) :
         IncompleteRowSkipped(DictRowsInit(TaggedRows, order), RowsOf(TaggedRows))

\* a row without id went through the DictRows loader: Log took its tag (None),
\* Article took nothing
C11_Witness ==
    /\ ret.op = "append" /\ ret.kind = "ok"
    /\ records["Article"] = <<>>
    /\ records["Log"] # <<>> /\ records["Log"][Len(records["Log"])][1] = None

\* ---- C14
\* C14: a loader whose slots name a record set but leave out one of its
\* columns is constructed and appended to without an error, and the row is
\* skipped for that record set: the append returns normally and stores nothing.
C14_PartialLoader ==
    [][/\ \A order \in Orders(LoaderSets(IdRows)) : \A obj \in RowsOf(IdRows) :
            LoaderAppend(RowsInit(IdRows, order), obj) =>
                ret'.kind = "ok" /\ records' = records /\ indices' = indices
       /\ \A order \in Orders(LoaderSets(IdDictRows)) : \A obj \in RowsOf(IdDictRows) :
            LoaderAppend(DictRowsInit(IdDictRows, order), obj) =>
                ret'.kind = "ok" /\ records' = records /\ indices' = indices]_vars

\* ---- C15
\* row[slot(c)] for each declared column c of s, slot(c) the slot that names c
Expected(columns, s, obj) ==
    [j \in DOMAIN Columns(s) |->
        obj[CHOOSE k \in DOMAIN columns : Column(s, Columns(s)[j]) \in columns[k]]]

\* what the call of s with its expected sub-tuple gives from the current state
ExpectedCall(columns, s, obj) == RecordSetCall(Cur, s, Expected(columns, s, obj))

\* st2 holds for s what the call of s with its expected sub-tuple leaves
Fanned(st2, columns, s, obj) ==
    /\ st2.records[s] = ExpectedCall(columns, s, obj).st.records[s]
    /\ st2.indices[s] = ExpectedCall(columns, s, obj).st.indices[s]

\* every record set the loader names is called with its expected sub-tuple
FanOutAll(columns, init, rowset) ==
    \A obj \in rowset :
        LET a == RowsAppend(Cur, init.maps, obj)
        IN  \A s \in RecordSets :
                IF s \in LoaderSets(columns)
                THEN Fanned(a.st, columns, s, obj)
                ELSE Untouched(a.st, s)

\* the record sets are called in the order of iteration until one raises
FanOutInOrder(columns, order, init, rowset) ==
    \A obj \in rowset :
        LET a == RowsAppend(Cur, init.maps, obj)
            raises(i) == ExpectedCall(columns, order[i], obj).kind = "AssertionError"
        IN  /\ a.kind = IF \E i \in DOMAIN order : raises(i) THEN "AssertionError" ELSE "ok"
            /\ \A i \in DOMAIN order :
                 IF \A j \in 1..(i - 1) : ~raises(j)
                 THEN Fanned(a.st, columns, order[i], obj)
                 ELSE Untouched(a.st, order[i])
            /\ \A s \in RecordSets \ LoaderSets(columns) : Untouched(a.st, s)

\* the row of WideRows handed to the loader with the slots in reverse order
Reversed(obj) == [k \in DOMAIN obj |-> obj[Len(obj) + 1 - k]]

\* the order of the slots does not matter
SlotOrderFree ==
    \A order \in Orders(LoaderSets(WideRows)) : \A obj \in RowsOf(WideRows) :
        RowsAppend(Cur, RowsInit(WideRowsReversed, order).maps, Reversed(obj))
            = RowsAppend(Cur, RowsInit(WideRows, order).maps, obj)

\* C15 as stated: for every row, append calls the construct of every record
\* set the loader names, once, with the sub-tuple the slots give.
C15_EveryTable ==
    /\ \A order \in Orders(LoaderSets(WideRows)) :
         FanOutAll(WideRows, RowsInit(WideRows, order), RowsOf(WideRows))
    /\ \A order \in Orders(LoaderSets(TripleRows)) :
         FanOutAll(TripleRows, RowsInit(TripleRows, order), RowsOf(TripleRows))
    /\ \A order \in Orders(LoaderSets(TaggedRows)) :
         FanOutAll(TaggedRows, DictRowsInit(TaggedRows, order), RowsOf(TaggedRows))

\* C15 (amended): for every row, append calls the construct of the record
\* sets the loader names, in the order it iterates them and until one of the
\* calls raises, each once with the sub-tuple (row[slot(c)] for each declared
\* column c, in declared order); the record sets after a call that raised are
\* not called, the ones the loader does not name are never touched, the order
\* of the slots does not matter, and a slot naming several columns gives each
\* of them the same value.
C15_FanOut ==
    /\ \A order \in Orders(LoaderSets(UserRows)) :
         FanOutInOrder(UserRows, order, RowsInit(UserRows, order), RowsOf(UserRows))
    /\ \A order \in Orders(LoaderSets(PairRows)) :
         FanOutInOrder(PairRows, order, RowsInit(PairRows, order), RowsOf(PairRows))
    /\ \A order \in Orders(LoaderSets(WideRows)) :
         FanOutInOrder(WideRows, order, RowsInit(WideRows, order), RowsOf(WideRows))
    /\ \A order \in Orders(LoaderSets(TripleRows)) :
         FanOutInOrder(TripleRows, order, RowsInit(TripleRows, order), RowsOf(TripleRows))
    /\ \A order \in Orders(LoaderSets(TaggedRows)) :
         FanOutInOrder(TaggedRows, order, DictRowsInit(TaggedRows, order), RowsOf(TaggedRows))
    /\ SlotOrderFree

\* one row stored an Article and the User its author_id slot names
C15_Witness ==
    /\ ret.op = "append" /\ ret.kind = "ok"
    /\ records["Log"] = <<>>
    /\ Len(records["Article"]) = 1 /\ Len(records["User"]) = 1
    /\ records["Article"][1][2] = records["User"][1][1]
    /\ records["Article"][1][1] # records["User"][1][1]

\* ---- C19
\* a call of s changes nothing of any other record set
CallIsLocal ==
    \A s \in RecordSets : \A value \in Tuples(s) :
        \A t \in RecordSets \ {s} : Untouched(RecordSetCall(Cur, s, value).st, t)

\* when no call raises, every order of iteration leaves the same store
OrderFree(columns, inits, rowset) ==
    \A obj \in rowset : \A i1, i2 \in inits :
        LET a1 == RowsAppend(Cur, i1.maps, obj)
            a2 == RowsAppend(Cur, i2.maps, obj)
        IN  /\ a1.kind = a2.kind
            /\ a1.kind = "ok" => a1.st = a2.st

\* C19: a call of a record set changes only that record set's records and
\* indices; so an append in which no call raises leaves the same store for
\* every order in which the loader iterates its record sets.
C19_TableIndependence ==
    /\ CallIsLocal
    /\ OrderFree(WideRows, {RowsInit(WideRows, o) : o \in Orders(LoaderSets(WideRows))},
                 RowsOf(WideRows))
    /\ OrderFree(TripleRows, {RowsInit(TripleRows, o) : o \in Orders(LoaderSets(TripleRows))},
                 RowsOf(TripleRows))
    /\ OrderFree(TaggedRows, {DictRowsInit(TaggedRows, o) : o \in Orders(LoaderSets(TaggedRows))},
                 RowsOf(TaggedRows))

\* one row stored a record in each of three record sets
C19_Witness ==
    /\ ret.op = "append" /\ ret.kind = "ok"
    /\ Len(records["User"]) = 1 /\ Len(records["Article"]) = 1 /\ Len(records["Log"]) = 1
    /\ records["User"][1][1] = records["Article"][1][1]
    /\ records["User"][1][2] = records["Article"][1][2]

\* ---- C12
RECURSIVE Concat(_)
Concat(seqs) == IF seqs = <<>> THEN <<>> ELSE Head(seqs) \o Concat(Tail(seqs))

\* the second hop of q taken from the element x of the first hop's list: the
\* records the index of the hop's remote column holds for x's local value
HopFrom(q, x) ==
    LET l == Joins(q)[2][1]
        r == Joins(q)[2][2]
        hit == ColumnGetItem(Cur, r, GetAttr(l.set, records[l.set][x], l.name))
    IN  IF hit.kind = "KeyError" THEN <<>>
        ELSE IF IsUnique(r) THEN <<hit.val>> ELSE hit.val

\* the records of the last remote set a two-hop chain with a non-unique first
\* hop leads to from the rid-th record of q.set
ListOfRecords(q, rid) ==
    LET first == ColumnGetItem(Cur, Remote(q), LocalValue(q, rid))
    IN  IF first.kind = "KeyError" THEN <<>>
        ELSE Concat([k \in DOMAIN first.val |-> HopFrom(q, first.val[k])])

\* C12: a read of a two-hop relation whose first hop is non-unique looks the
\* local value of every element of the first hop's list up in the index of the
\* second hop's remote column, and returns the list of the records found (or
\* raises KeyError for a key with no entry), never a list of column values.
C12_ListModeHop ==
    [][\A q \in Queries : \A rid \in 1..MaxRecords :
          (Get(q, rid) /\ Len(q.joins) = 2 /\ ~IsUnique(Remote(q))) =>
              /\ ret'.kind \in {"list", "KeyError"}
              /\ ret'.kind = "list" => ret'.val = ListOfRecords(q, rid)]_vars

\* ---- C13
\* the indices compile created: the ones of columns that are not unique
LazyIndices(s) == DOMAIN indices[s] \ Range(Uniques(s))

\* the positions of the records of s with column n = v stored after the
\* index of n was created
PositionsSince(s, n, v) ==
    SelectSeq(Positions(s, n, v), LAMBDA j : j > born[s][n])

\* C13: an index created by compile() holds, for each value v, exactly the
\* records with that value in its column that were appended after the index
\* was created, in insertion order; records stored before are never entered,
\* and a re-insert of a stored tuple changes no index.
C13_IndexOrdering ==
    /\ \A s \in RecordSets : \A n \in LazyIndices(s) :
         /\ DOMAIN indices[s][n] \subseteq Values
         /\ \A v \in Values :
              IF PositionsSince(s, n, v) = <<>>
              THEN v \notin DOMAIN indices[s][n]
              ELSE v \in DOMAIN indices[s][n] /\ indices[s][n][v] = PositionsSince(s, n, v)
    /\ \A s \in RecordSets : \A value \in Tuples(s) :
         RecordSetCall(Cur, s, value).kind = "existing" =>
             RecordSetCall(Cur, s, value).st = Cur

\* an Article stored before the index of author_id was created is missing
\* from it, a later one with the same author_id is in it, and the earlier
\* one has just been constructed again
C13_Witness ==
    /\ ret.op = "construct" /\ ret.kind = "existing" /\ ret.val = <<1>>
    /\ "author_id" \in DOMAIN indices["Article"]
    /\ born["Article"]["author_id"] = 1
    /\ Len(records["Article"]) = 2
    /\ records["Article"][1][2] = 1 /\ records["Article"][2][2] = 1
    /\ indices["Article"]["author_id"][1] = <<2>>

\* ---- C17
\* the remote columns of q's hops
RemoteColumns(q) == {q.joins[i][2] : i \in DOMAIN q.joins}

\* C17: compile() leaves every record list and every index that existed as
\* it was, creates an index, empty, only for a remote column of its hops that
\* had none, and after a compile() that succeeded every hop's remote column
\* has an index.
C17_CompileFrame ==
    [][\A q \in Queries :
          Compile(q) =>
              /\ records' = records
              /\ \A s \in RecordSets :
                   /\ DOMAIN indices[s] \subseteq DOMAIN indices'[s]
                   /\ \A n \in DOMAIN indices[s] : indices'[s][n] = indices[s][n]
                   /\ \A n \in DOMAIN indices'[s] \ DOMAIN indices[s] :
                        indices'[s][n] = <<>> /\ Column(s, n) \in RemoteColumns(q)
              /\ ret'.kind = "ok" =>
                   \A c \in RemoteColumns(q) : c.name \in DOMAIN indices'[c.set]]_vars

\* a compile found the index of Article.author_id populated and left it so,
\* and the index of Log.tag exists
C17_Witness ==
    /\ ret.op = "compile" /\ ret.kind = "ok"
    /\ "author_id" \in DOMAIN indices["Article"]
    /\ indices["Article"]["author_id"] # <<>>
    /\ "tag" \in DOMAIN indices["Log"]
    /\ records["User"] # <<>>

\* ---- C18
\* C18: the index of a unique column maps v to a record exactly when that
\* record is stored and has v in the column: every stored record is found
\* through every unique index, and no unique index holds anything else.
C18_UniqueIndexConsistency ==
    \A s \in RecordSets : \A n \in Range(Uniques(s)) :
        /\ DOMAIN indices[s][n] \subseteq Values
        /\ \A v \in Values :
             IF Positions(s, n, v) = <<>>
             THEN v \notin DOMAIN indices[s][n]
             ELSE v \in DOMAIN indices[s][n] /\ <<indices[s][n][v]>> = Positions(s, n, v)

C18_Witness ==
    /\ ret.op = "extend" /\ ret.kind = "AssertionError"
    /\ Len(records["User"]) = 2 /\ Len(records["Article"]) = 1
    /\ \E q \in Queries : Compiled(q)

\* ---- C16
\* the unique indices of st1 are kept in st2 and its lists only grew
Kept(st1, st2) ==
    \A s \in RecordSets :
        /\ IsPrefix(st1.records[s], st2.records[s])
        /\ \A n \in DOMAIN st1.indices[s] : \A v \in DOMAIN st1.indices[s][n] :
             /\ v \in DOMAIN st2.indices[s][n]
             /\ st2.indices[s][n][v] = st1.indices[s][n][v]

ExtendNotAtomic(init, rowseqs) ==
    \A rows \in rowseqs : \A k \in DOMAIN rows :
        LET pre == Sequential(Cur, init.maps, SubSeq(rows, 1, k - 1))
            at == RowsAppend(pre.st, init.maps, rows[k])
            ext == RowsExtend(Cur, init.maps, rows)
        IN  (pre.failed = 0 /\ at.kind = "AssertionError") =>
                /\ ext.kind = "AssertionError"
                /\ Kept(pre.st, ext.st)
                /\ ext.st = at.st

\* C16: when the k-th row of extend(rows) makes a call raise, extend raises,
\* every record admitted by rows 1..k-1 stays stored and indexed, and no row
\* after the k-th is processed.
C16_ExtendNotAtomic ==
    /\ \A order \in Orders(LoaderSets(UserRows)) :
         ExtendNotAtomic(RowsInit(UserRows, order), RowSeqs(UserRows))
    /\ \A order \in Orders(LoaderSets(TaggedRows)) :
         ExtendNotAtomic(DictRowsInit(TaggedRows, order), RowSeqs(TaggedRows))

\* an extend of two rows raised and a User is stored
C16_Witness ==
    /\ ret.op = "extend" /\ ret.kind = "AssertionError" /\ ret.val = <<2>>
    /\ Len(records["User"]) = 1

\* ---- C20
\* C20: a record set declared without unique columns never returns None,
\* never returns a stored record and never raises: every call appends the
\* tuple as a new record, so the tuple is stored once more after each call.
C20_NoUniques ==
    \A s \in RecordSets \ KeyedSets : \A value \in Tuples(s) :
        LET r1 == RecordSetCall(Cur, s, value)
            r2 == RecordSetCall(r1.st, s, value)
        IN  /\ r1.kind = "new" /\ r1.val = <<Len(records[s]) + 1>>
            /\ r1.st.records[s] = Append(records[s], value)
            /\ r2.kind = "new"
            /\ Count(r2.st.records[s], value) = Count(records[s], value) + 2

\* the same tuple constructed three times is stored three times
C20_Witness ==
    /\ ret.op = "construct" /\ ret.kind = "new" /\ ret.val = <<3>>
    /\ Len(records["Log"]) = 3
    /\ records["Log"][1] = records["Log"][2] /\ records["Log"][2] = records["Log"][3]

====
